---- MODULE Spec2Model ----
(***************************************************************************)
(* Inventory API: the product controller (createProduct .. getLowStock-    *)
(* Products), the Product schema and the MongoDB collection behind them.   *)
(*                                                                         *)
(* Every handler is an async function.  A handler that issues one store    *)
(* call is one action (the call is atomic in the store).  increaseStock    *)
(* and decreaseStock issue two store calls, findById and save, and other   *)
(* requests may run between them: they are two actions each.               *)
(*                                                                         *)
(* A JSON number n is modelled as the integer n * Scale, so that the       *)
(* fractional inputs 0.5, 1.5, ... exist and Number.isInteger can reject   *)
(* them.                                                                   *)
(***************************************************************************)
EXTENDS Integers, Sequences, FiniteSets, TLC

VARIABLES store, nextId, req, server, reqLine

vars == <<store, nextId, req, server, reqLine>>

\* ------------------------------------------------------------------ bounds
NumClients == 2
MaxIds == 2
MaxStock == 2
MaxAmount == 2

\* a number n is represented as n * Scale
Scale == 2

Clients == 1..NumClients
Ids == 1..MaxIds
\* the id 0 stands for a string that is not a 24-hex ObjectId
MalformedId == 0

\* ------------------------------------------------------------ JSON values
JUndef == [k |-> "undefined", n |-> 0, s |-> <<>>]
JNull == [k |-> "null", n |-> 0, s |-> <<>>]
JNum(x) == [k |-> "number", n |-> x, s |-> <<>>]
JStr(q) == [k |-> "string", n |-> 0, s |-> q]
Num(i) == JNum(i * Scale)

RECURSIVE TrimLeft(_)
TrimLeft(q) == IF q # <<>> /\ Head(q) = " " THEN TrimLeft(Tail(q)) ELSE q

RECURSIVE TrimRight(_)
TrimRight(q) ==
  IF q # <<>> /\ q[Len(q)] = " " THEN TrimRight(SubSeq(q, 1, Len(q) - 1)) ELSE q

\* String.prototype.trim
Trim(q) == TrimRight(TrimLeft(q))

FalsyNullish(v) == v.k \in {"undefined", "null"}

\* !v
Falsy(v) ==
  \/ v.k \in {"undefined", "null"}
  \/ v.k = "number" /\ v.n = 0
  \/ v.k = "string" /\ v.s = <<>>

\* ToNumber(v) is NaN: the strings of the model hold letters and blanks only
IsNaN(v) == v.k = "undefined" \/ (v.k = "string" /\ Trim(v.s) # <<>>)

ToNumber(v) == IF v.k = "number" THEN v.n ELSE 0

\* v < 0 and v <= 0 with JavaScript's coercion (false when NaN is involved)
LtZero(v) == ~IsNaN(v) /\ ToNumber(v) < 0
LeqZero(v) == ~IsNaN(v) /\ ToNumber(v) <= 0

\* Number.isInteger
IsInteger(v) == v.k = "number" /\ v.n % Scale = 0

\* ------------------------------------------------------- the Product schema
DefaultStockQuantity == 0
DefaultLowStockThreshold == 10
MinStockQuantity == 0
MinLowStockThreshold == 0

JCastError == [k |-> "casterror", n |-> 0, s |-> <<>>]

\* SchemaString cast followed by the trim setter
CastString(v) == IF v.k = "string" THEN JStr(Trim(v.s)) ELSE v

\* SchemaNumber cast: '' becomes null, a blank string 0, any other string of
\* the model is not a number
CastNumber(v) ==
  IF v.k # "string" THEN v
  ELSE IF v.s = <<>> THEN JNull
  ELSE IF IsNaN(v) THEN JCastError
  ELSE JNum(0)

NoProduct ==
  [id |-> MalformedId, name |-> JUndef, description |-> JUndef,
   stock_quantity |-> JUndef, low_stock_threshold |-> JUndef]

NewProductWithoutDefaults(body) ==
  [id |-> MalformedId,
   name |-> CastString(body.name),
   description |-> CastString(body.description),
   stock_quantity |-> CastNumber(body.stock_quantity),
   low_stock_threshold |-> CastNumber(body.low_stock_threshold)]

\* new Product({...}): casts, setters, and the defaults of undefined paths
NewProduct(body) ==
  [id |-> MalformedId,
   name |-> CastString(body.name),
   description |-> CastString(body.description),
   stock_quantity |->
     IF body.stock_quantity.k = "undefined" THEN Num(DefaultStockQuantity)
     ELSE CastNumber(body.stock_quantity),
   low_stock_threshold |->
     IF body.low_stock_threshold.k = "undefined" THEN Num(DefaultLowStockThreshold)
     ELSE CastNumber(body.low_stock_threshold)]

\* required: true on a String path
RequiredOk(v) == v.k = "string" /\ v.s # <<>>

NameErrors(v) ==
  IF RequiredOk(v) THEN <<>> ELSE <<"name: Product name is required">>

NumberErrorsWithoutInteger(v, path, min, minMsg, intMsg) ==
  IF v.k = "undefined" THEN <<>>
  ELSE IF v.k = "casterror" THEN <<path \o ": Cast to Number failed">>
  ELSE IF v.k = "number" /\ v.n < min * Scale THEN <<path \o ": " \o minMsg>>
  ELSE <<>>

NumberErrorsWithoutMin(v, path, min, minMsg, intMsg) ==
  IF v.k = "undefined" THEN <<>>
  ELSE IF v.k = "casterror" THEN <<path \o ": Cast to Number failed">>
  ELSE IF ~IsInteger(v) THEN <<path \o ": " \o intMsg>>
  ELSE <<>>

\* the validators of a Number path in declaration order (min, then validate);
\* a path reports its first failure; undefined is not validated
NumberErrors(v, path, min, minMsg, intMsg) ==
  IF v.k = "undefined" THEN <<>>
  ELSE IF v.k = "casterror" THEN <<path \o ": Cast to Number failed">>
  ELSE IF v.k = "number" /\ v.n < min * Scale THEN <<path \o ": " \o minMsg>>
  ELSE IF ~IsInteger(v) THEN <<path \o ": " \o intMsg>>
  ELSE <<>>

StockErrors(v) ==
  NumberErrors(v, "stock_quantity", MinStockQuantity,
               "Stock quantity cannot be negative",
               "Stock quantity must be an integer")

ThresholdErrors(v) ==
  NumberErrors(v, "low_stock_threshold", MinLowStockThreshold,
               "Low stock threshold cannot be negative",
               "Low stock threshold must be an integer")

RECURSIVE JoinErrors(_)
JoinErrors(es) ==
  IF Len(es) = 1 THEN es[1] ELSE es[1] \o ", " \o JoinErrors(Tail(es))

\* document.validate() as save() runs it on a new document
ValidateDocument(doc) ==
  NameErrors(doc.name) \o StockErrors(doc.stock_quantity)
    \o ThresholdErrors(doc.low_stock_threshold)

\* ---------------------------------------------------------------- requests
\* req.body: the JSON fields the handlers read; an absent field is undefined
NoBody ==
  [name |-> JUndef, description |-> JUndef, stock_quantity |-> JUndef,
   low_stock_threshold |-> JUndef, amount |-> JUndef]

AmountBody(a) == [NoBody EXCEPT !.amount = a]

Idle ==
  [pc |-> "idle", op |-> "none", id |-> MalformedId, body |-> NoBody,
   read |-> JUndef, stale |-> FALSE, fault |-> FALSE,
   status |-> 0, error |-> "", product |-> NoProduct, list |-> {}]

\* res.status(status).json(product | list | {error}): the request is answered
Answer(op, id, body, status, error, product, list) ==
  [Idle EXCEPT !.pc = "done", !.op = op, !.id = id, !.body = body,
               !.status = status, !.error = error, !.product = product,
               !.list = list]

Propagated(op, id, body, error, fault) ==
  [Answer(op, id, body, 0, "", NoProduct, {}) EXCEPT !.fault = fault]

\* the last branch of a catch block; fault: the store call itself failed
\* (connection lost, server selection timed out)
ServerError(op, id, body, error, fault) ==
  [Answer(op, id, body, 500, error, NoProduct, {}) EXCEPT !.fault = fault]

\* a client can send a request when its previous one has been answered
Ready(c) == req[c].pc \in {"idle", "done"}

\* a write to product id commits: every document of id that another request
\* loaded with findById and has not saved yet is now out of date
Committed(c, r, id) ==
  [d \in Clients |->
     IF d # c /\ req[d].pc = "save" /\ req[d].id = id
     THEN [r[d] EXCEPT !.stale = TRUE] ELSE r[d]]

\* the method and the path below /api/products of the request that a client
\* sent through the router; NoLine: no such request
NoLine == [method |-> "", path |-> <<>>]

\* the process: uri tells whether MONGODB_URI is set, conn is the state of the
\* mongoose.connect call, http the state of the server of app.listen
Booting(uri) ==
  [uri |-> uri, conn |-> "pending", http |-> "starting", exited |-> FALSE]

\* the server listens and mongoose.connect has resolved
Serving == [Booting(TRUE) EXCEPT !.conn = "connected", !.http = "listening"]

\* the collection is empty, no request has been sent, the process serves
Init ==
  /\ store = [i \in {} |-> NoProduct]
  /\ nextId = 1
  /\ req = [c \in Clients |-> Idle]
  /\ server = Serving
  /\ reqLine = [c \in Clients |-> NoLine]

\* POST /api/products
createProduct(c, body, ok) ==
  /\ Ready(c)
  /\ IF Falsy(body.name)
     THEN /\ req' = [req EXCEPT ![c] =
                 Answer("create", MalformedId, body, 400,
                        "Product name is required", NoProduct, {})]
          /\ UNCHANGED <<store, nextId>>
     ELSE LET product == NewProduct(body)
              errors == ValidateDocument(product)
              savedProduct == [product EXCEPT !.id = nextId]
          IN IF errors # <<>>
             THEN /\ req' = [req EXCEPT ![c] =
                         Answer("create", MalformedId, body, 400,
                                "Product validation failed: " \o JoinErrors(errors),
                                NoProduct, {})]
                  /\ UNCHANGED <<store, nextId>>
             ELSE IF ~ok
             THEN /\ req' = [req EXCEPT ![c] =
                         ServerError("create", MalformedId, body,
                                     "Server error while creating product", TRUE)]
                  /\ UNCHANGED <<store, nextId>>
             ELSE /\ nextId <= MaxIds
                  /\ store' = [i \in DOMAIN store \cup {nextId} |->
                                 IF i = nextId THEN savedProduct ELSE store[i]]
                  /\ nextId' = nextId + 1
                  /\ req' = [req EXCEPT ![c] =
                         Answer("create", nextId, body, 201, "", savedProduct, {})]

\* the cast of req.params.id to ObjectId throws CastError
CastIdFails(id) == id \notin Ids

StoredProducts == {store[i] : i \in DOMAIN store}

\* GET /api/products
getAllProducts(c, ok) ==
  /\ Ready(c)
  /\ req' = [req EXCEPT ![c] =
        IF ok THEN Answer("getAll", MalformedId, NoBody, 200, "", NoProduct,
                          StoredProducts)
        ELSE ServerError("getAll", MalformedId, NoBody,
                         "Server error while fetching products", TRUE)]
  /\ UNCHANGED <<store, nextId>>

\* GET /api/products/:id
getProductById(c, id, ok) ==
  /\ Ready(c)
  /\ req' = [req EXCEPT ![c] =
        IF CastIdFails(id)
        THEN Answer("getById", id, NoBody, 400, "Invalid product ID", NoProduct, {})
        ELSE IF ~ok
        THEN ServerError("getById", id, NoBody,
                         "Server error while fetching product", TRUE)
        ELSE IF id \notin DOMAIN store
        THEN Answer("getById", id, NoBody, 404, "Product not found", NoProduct, {})
        ELSE Answer("getById", id, NoBody, 200, "", store[id], {})]
  /\ UNCHANGED <<store, nextId>>

\* the update document {name, description, stock_quantity, low_stock_threshold}
\* after casting; undefined keys are removed from the update
CastUpdate(body) ==
  [name |-> CastString(body.name),
   description |-> CastString(body.description),
   stock_quantity |-> CastNumber(body.stock_quantity),
   low_stock_threshold |-> CastNumber(body.low_stock_threshold)]

UpdateCastFails(u) ==
  u.stock_quantity.k = "casterror" \/ u.low_stock_threshold.k = "casterror"

ValidateUpdateOff(u) == <<>>

\* runValidators: true validates the paths the update sets
ValidateUpdate(u) ==
  (IF u.name.k = "undefined" THEN <<>> ELSE NameErrors(u.name))
    \o StockErrors(u.stock_quantity) \o ThresholdErrors(u.low_stock_threshold)

PickNew(new, old) == new

\* a key whose value is undefined is not part of the update
Pick(new, old) == IF new.k = "undefined" THEN old ELSE new

\* $set of the keys that are left in the update
ApplyUpdate(p, u) ==
  [id |-> p.id,
   name |-> Pick(u.name, p.name),
   description |-> Pick(u.description, p.description),
   stock_quantity |-> Pick(u.stock_quantity, p.stock_quantity),
   low_stock_threshold |-> Pick(u.low_stock_threshold, p.low_stock_threshold)]

\* PUT /api/products/:id
updateProduct(c, id, body, ok) ==
  /\ Ready(c)
  /\ LET u == CastUpdate(body)
         errors == ValidateUpdate(u)
     IN IF body.stock_quantity.k # "undefined" /\ LtZero(body.stock_quantity)
        THEN /\ req' = [req EXCEPT ![c] =
                    Answer("update", id, body, 400,
                           "Stock quantity cannot be negative", NoProduct, {})]
             /\ UNCHANGED <<store, nextId>>
        ELSE IF body.low_stock_threshold.k # "undefined"
                /\ LtZero(body.low_stock_threshold)
        THEN /\ req' = [req EXCEPT ![c] =
                    Answer("update", id, body, 400,
                           "Low stock threshold cannot be negative", NoProduct, {})]
             /\ UNCHANGED <<store, nextId>>
        ELSE IF CastIdFails(id) \/ UpdateCastFails(u)
        THEN /\ req' = [req EXCEPT ![c] =
                    Answer("update", id, body, 400, "Invalid product ID",
                           NoProduct, {})]
             /\ UNCHANGED <<store, nextId>>
        ELSE IF errors # <<>>
        THEN /\ req' = [req EXCEPT ![c] =
                    Answer("update", id, body, 400,
                           "Validation failed: " \o JoinErrors(errors),
                           NoProduct, {})]
             /\ UNCHANGED <<store, nextId>>
        ELSE IF ~ok
        THEN /\ req' = [req EXCEPT ![c] =
                    ServerError("update", id, body,
                                "Server error while updating product", TRUE)]
             /\ UNCHANGED <<store, nextId>>
        ELSE IF id \notin DOMAIN store
        THEN /\ req' = [req EXCEPT ![c] =
                    Answer("update", id, body, 404, "Product not found",
                           NoProduct, {})]
             /\ UNCHANGED <<store, nextId>>
        ELSE /\ store' = [store EXCEPT ![id] = ApplyUpdate(store[id], u)]
             /\ req' = Committed(c, [req EXCEPT ![c] =
                    Answer("update", id, body, 200, "", store'[id], {})], id)
             /\ UNCHANGED nextId

\* DELETE /api/products/:id
deleteProduct(c, id, ok) ==
  /\ Ready(c)
  /\ IF CastIdFails(id)
     THEN /\ req' = [req EXCEPT ![c] =
                 Answer("delete", id, NoBody, 400, "Invalid product ID",
                        NoProduct, {})]
          /\ UNCHANGED <<store, nextId>>
     ELSE IF ~ok
     THEN /\ req' = [req EXCEPT ![c] =
                 ServerError("delete", id, NoBody,
                             "Server error while deleting product", TRUE)]
          /\ UNCHANGED <<store, nextId>>
     ELSE IF id \notin DOMAIN store
     THEN /\ req' = [req EXCEPT ![c] =
                 Answer("delete", id, NoBody, 404, "Product not found",
                        NoProduct, {})]
          /\ UNCHANGED <<store, nextId>>
     ELSE /\ store' = [i \in DOMAIN store \ {id} |-> store[i]]
          /\ req' = Committed(c, [req EXCEPT ![c] =
                 Answer("delete", id, NoBody, 200, "", store[id], {})], id)
          /\ UNCHANGED nextId

AmountErrorAllowsFraction(amount) ==
  IF Falsy(amount) \/ LeqZero(amount) THEN "Amount must be a positive number"
  ELSE ""

\* the two guards on req.body.amount that open increaseStock and decreaseStock
AmountError(amount) ==
  IF Falsy(amount) \/ LeqZero(amount) THEN "Amount must be a positive number"
  ELSE IF ~IsInteger(amount) THEN "Amount must be an integer"
  ELSE ""

\* save() of a loaded document validates the required and the modified paths
ValidateSave(doc) == NameErrors(doc.name) \o StockErrors(doc.stock_quantity)

SaveWholeDocument(p, doc) == doc

\* save() of a loaded document: updateOne({_id}, {$set: <modified paths>});
\* stock_quantity is the only modified path
SaveStock(p, doc) == [p EXCEPT !.stock_quantity = doc.stock_quantity]

InsufficientStockIgnoresAmount(current, amount) == current < 0

InsufficientStockAtZero(current, amount) == current - amount <= 0

\* product.stock_quantity - amount < 0
InsufficientStock(current, amount) == current - amount < 0

AdjustedStockAssigns(op, current, amount) ==
  IF op = "increase" THEN amount ELSE current - amount

AdjustedStockSwapped(op, current, amount) ==
  IF op = "increase" THEN current + amount ELSE amount - current

\* product.stock_quantity += amount, product.stock_quantity -= amount
AdjustedStock(op, current, amount) ==
  IF op = "increase" THEN current + amount ELSE current - amount

SaveWriteUpserts(s, id, doc) ==
  [i \in DOMAIN s \cup {id} |-> IF i = id THEN doc ELSE s[i]]

\* the write of save(): updateOne({_id: id}, {$set: ...}) without upsert; a
\* collection without the document stays as it is
SaveWrite(s, id, doc) ==
  IF id \in DOMAIN s THEN [s EXCEPT ![id] = SaveStock(s[id], doc)] ELSE s

\* PATCH .../increase and .../decrease up to the call of save(): the amount
\* guards, findById, the floor check of decrease, the change of the loaded
\* document
AdjustFind(c, op, id, body, ok, serverError) ==
  /\ Ready(c)
  /\ UNCHANGED <<store, nextId>>
  /\ IF AmountError(body.amount) # ""
     THEN req' = [req EXCEPT ![c] =
             Answer(op, id, body, 400, AmountError(body.amount), NoProduct, {})]
     ELSE IF CastIdFails(id)
     THEN req' = [req EXCEPT ![c] =
             Answer(op, id, body, 400, "Invalid product ID", NoProduct, {})]
     ELSE IF ~ok
     THEN req' = [req EXCEPT ![c] = ServerError(op, id, body, serverError, TRUE)]
     ELSE IF id \notin DOMAIN store
     THEN req' = [req EXCEPT ![c] =
             Answer(op, id, body, 404, "Product not found", NoProduct, {})]
     ELSE LET product == store[id]
              current == ToNumber(product.stock_quantity)
              amount == body.amount.n
          IN IF op = "decrease" /\ InsufficientStock(current, amount)
             THEN req' = [req EXCEPT ![c] =
                     [Answer(op, id, body, 400, "Insufficient stock",
                             NoProduct, {})
                        EXCEPT !.read = product.stock_quantity]]
             ELSE /\ op = "increase" => current + amount <= MaxStock * Scale
                  /\ req' = [req EXCEPT ![c] =
                       [Idle EXCEPT
                          !.pc = "save", !.op = op, !.id = id, !.body = body,
                          !.read = product.stock_quantity,
                          !.product = [product EXCEPT !.stock_quantity =
                             JNum(AdjustedStock(op, current, amount))]]]

AdjustSaveWritesThenFails(c, op, ok, serverError) ==
  /\ req[c].pc = "save"
  /\ req[c].op = op
  /\ UNCHANGED nextId
  /\ store' = SaveWrite(store, req[c].id, req[c].product)
  /\ req' = [req EXCEPT ![c] =
        ServerError(op, req[c].id, req[c].body, serverError, ~ok)]

\* await product.save() of increaseStock and decreaseStock, and the answer
AdjustSave(c, op, ok, serverError) ==
  /\ req[c].pc = "save"
  /\ req[c].op = op
  /\ UNCHANGED nextId
  /\ LET r == req[c]
         failed(fault) ==
           [ServerError(op, r.id, r.body, serverError, fault)
              EXCEPT !.read = r.read, !.stale = r.stale]
     IN IF ValidateSave(r.product) # <<>>
        THEN req' = [req EXCEPT ![c] = failed(FALSE)] /\ UNCHANGED store
        ELSE IF ~ok
        THEN req' = [req EXCEPT ![c] = failed(TRUE)] /\ UNCHANGED store
        ELSE IF r.id \notin DOMAIN SaveWrite(store, r.id, r.product)
        \* the write matched no document: DocumentNotFoundError
        THEN req' = [req EXCEPT ![c] = failed(FALSE)] /\ UNCHANGED store
        ELSE /\ store' = SaveWrite(store, r.id, r.product)
             /\ req' = Committed(c, [req EXCEPT ![c] =
                    [Answer(op, r.id, r.body, 200, "", r.product, {})
                       EXCEPT !.read = r.read, !.stale = r.stale]], r.id)

increaseStock(c, id, body, ok) ==
  AdjustFind(c, "increase", id, body, ok, "Server error while increasing stock")

increaseStockSave(c, ok) ==
  AdjustSave(c, "increase", ok, "Server error while increasing stock")

decreaseStock(c, id, body, ok) ==
  AdjustFind(c, "decrease", id, body, ok, "Server error while decreasing stock")

decreaseStockSave(c, ok) ==
  AdjustSave(c, "decrease", ok, "Server error while decreasing stock")

ExprLte(a, b) ==
  IF a.k = "number" /\ b.k = "number" THEN a.n <= b.n
  ELSE a.k # "number" /\ b.k = "number"

\* $lt of the aggregation language: numbers by value, null and missing
\* before every number
ExprLt(a, b) ==
  IF a.k = "number" /\ b.k = "number" THEN a.n < b.n
  ELSE a.k # "number" /\ b.k = "number"

\* Product.find({$expr: {$lt: ['$stock_quantity', '$low_stock_threshold']}})
LowStock == {p \in StoredProducts : ExprLt(p.stock_quantity, p.low_stock_threshold)}

\* GET /api/products/low-stock
getLowStockProducts(c, ok) ==
  /\ Ready(c)
  /\ req' = [req EXCEPT ![c] =
        IF ok THEN Answer("lowStock", MalformedId, NoBody, 200, "", NoProduct,
                          LowStock)
        ELSE ServerError("lowStock", MalformedId, NoBody,
                         "Server error while fetching low stock products", TRUE)]
  /\ UNCHANGED <<store, nextId>>

\* ------------------------------------------------------------------ inputs
ProductBodies(names, stocks, thresholds) ==
  {[NoBody EXCEPT !.name = n, !.stock_quantity = s, !.low_stock_threshold = t] :
     n \in names, s \in stocks, t \in thresholds}

AmountBodies(amounts) == {AmountBody(a) : a \in amounts}

\* the requests that clients C send: ids of I, bodies of the given sets; oks
\* tells whether a store call may fail
Requests(C, I, creates, updates, amounts, oks) ==
  \E c \in C, ok \in oks :
    /\ server.http = "listening" /\ ~server.exited
    /\ ok => server.conn = "connected"
    /\ UNCHANGED <<server, reqLine>>
    /\ \/ \E body \in creates : nextId \in I /\ createProduct(c, body, ok)
       \/ getAllProducts(c, ok)
       \/ \E id \in I \cup {MalformedId} : getProductById(c, id, ok)
       \/ \E id \in I \cup {MalformedId}, body \in updates :
            updateProduct(c, id, body, ok)
       \/ \E id \in I \cup {MalformedId} : deleteProduct(c, id, ok)
       \/ \E id \in I \cup {MalformedId}, body \in amounts :
            increaseStock(c, id, body, ok)
       \/ increaseStockSave(c, ok)
       \/ \E id \in I \cup {MalformedId}, body \in amounts :
            decreaseStock(c, id, body, ok)
       \/ decreaseStockSave(c, ok)
       \/ getLowStockProducts(c, ok)

\* Spec: NumClients clients work on one product at the same time
Next ==
  Requests(Clients, {1},
           ProductBodies({JStr(<<"A">>)}, {JUndef, Num(MaxStock - 1), JNum(-Scale)},
                         {JUndef}),
           ProductBodies({JUndef}, {Num(1), JNum(-Scale)}, {JUndef}),
           AmountBodies({Num(i) : i \in 1..MaxAmount} \cup {JNum(-Scale)}),
           BOOLEAN)

Spec == Init /\ [][Next]_vars

\* the event loop resumes the handler of c that awaits product.save()
Resume(c) ==
  \E ok \in BOOLEAN :
    /\ ok => server.conn = "connected"
    /\ UNCHANGED <<server, reqLine>>
    /\ increaseStockSave(c, ok) \/ decreaseStockSave(c, ok)

\* SpecLive: Spec, and every handler that awaits is resumed
SpecLive == Spec /\ \A c \in Clients : WF_vars(Resume(c))

\* ----------------------------------------------------------------- startup
\* the catch block of connectDB: the error is logged, the function returns
ConnectFailedExits(s) == [s EXCEPT !.conn = "failed", !.exited = TRUE]

ConnectFailed(s) == [s EXCEPT !.conn = "failed"]

\* connectDB(): mongoose.connect resolves or rejects; without MONGODB_URI it
\* rejects
connectDB(connected) ==
  /\ server.conn = "pending" /\ ~server.exited
  /\ connected => server.uri
  /\ server' = IF connected THEN [server EXCEPT !.conn = "connected"]
                ELSE ConnectFailed(server)
  /\ UNCHANGED <<store, nextId, req, reqLine>>

ListenAwaitsConnect(s) == s.conn # "pending"

\* app.listen(PORT, ...) is called right after connectDB(), which is not
\* awaited: nothing of the connection is read before the server listens
ListenReady(s) == TRUE

\* the server of app.listen starts to listen
listen ==
  /\ server.http = "starting" /\ ~server.exited
  /\ ListenReady(server)
  /\ server' = [server EXCEPT !.http = "listening"]
  /\ UNCHANGED <<store, nextId, req, reqLine>>

\* the process starts: connectDB() and app.listen() have been called
InitBoot ==
  /\ store = [i \in {} |-> NoProduct]
  /\ nextId = 1
  /\ req = [c \in Clients |-> Idle]
  /\ \E uri \in BOOLEAN : server = Booting(uri)
  /\ reqLine = [c \in Clients |-> NoLine]

\* SpecBoot: the process starts and one client sends requests; the event loop
\* runs the listening callback of a server that is ready to listen
NextBoot ==
  \/ \E connected \in BOOLEAN : connectDB(connected)
  \/ listen
  \/ Requests({1}, {1},
              ProductBodies({JStr(<<"A">>)}, {JUndef, JNum(-Scale)}, {JUndef}),
              ProductBodies({JUndef}, {Num(1)}, {JUndef}),
              AmountBodies({Num(1), JNum(0)}),
              BOOLEAN)

SpecBoot == InitBoot /\ [][NextBoot]_vars /\ WF_vars(listen)

\* SpecSolo: one client, requests one after the other, all kinds of input,
\* every store call succeeds
NameInputs == {JUndef, JNull, JStr(<<>>), JStr(<<" ">>), JStr(<<"A">>)}

StockInputs ==
  {JUndef, JNum(-Scale), JNum(1)} \cup {Num(i) : i \in 0..MaxStock}

AmountInputs ==
  {JUndef, JNum(-Scale), JNum(0), JNum(1)} \cup {Num(i) : i \in 1..MaxAmount}

NextSolo ==
  Requests({1}, Ids,
           ProductBodies(NameInputs, {JUndef}, {JUndef})
             \cup ProductBodies({JStr(<<"A">>)}, StockInputs, {JUndef})
             \cup ProductBodies({JStr(<<"A">>)}, {JUndef, Num(MaxStock)}, {Num(1)}),
           ProductBodies({JUndef}, {JUndef, Num(1)}, {JUndef})
             \cup ProductBodies({JUndef}, {JUndef}, {Num(1)}),
           AmountBodies(AmountInputs),
           {TRUE})

SpecSolo == Init /\ [][NextSolo]_vars

\* SpecCrud: one client, requests one after the other on one product, bodies
\* with every kind of name, description, stock and threshold, store calls
\* that may fail
FullBodies(names, descriptions, stocks, thresholds) ==
  {[NoBody EXCEPT !.name = n, !.description = d, !.stock_quantity = s,
                  !.low_stock_threshold = t] :
     n \in names, d \in descriptions, s \in stocks, t \in thresholds}

QuantityInputs ==
  {JUndef, JNull, JNum(-Scale), JNum(1), Num(0), Num(1), JStr(<<>>),
   JStr(<<"A">>)}

CreateInputs ==
  FullBodies({JUndef, JStr(<<>>), JStr(<<" ">>), JStr(<<"A">>), JStr(<<" ", "A">>)},
             {JUndef}, {JUndef}, {JUndef})
    \cup FullBodies({JStr(<<"A">>)}, {JUndef, JStr(<<"d", " ">>)},
                    {JUndef, Num(MaxStock)}, {JUndef, Num(0)})
    \cup FullBodies({JStr(<<"A">>)}, {JUndef}, QuantityInputs, {JUndef})
    \cup FullBodies({JStr(<<"A">>)}, {JUndef}, {JUndef}, QuantityInputs)

UpdateInputs ==
  FullBodies({JUndef, JNull, JStr(<<>>), JStr(<<" ">>), JStr(<<" ", "B">>)},
             {JUndef}, {JUndef}, {JUndef})
    \cup FullBodies({JUndef}, {JNull, JStr(<<"e">>)}, {JUndef}, {JUndef})
    \cup FullBodies({JUndef}, {JUndef}, QuantityInputs, {JUndef})
    \cup FullBodies({JUndef}, {JUndef}, {JUndef}, QuantityInputs)
    \cup FullBodies({JStr(<<"B">>)}, {JUndef}, {Num(1)}, {JUndef})

NextCrud ==
  Requests({1}, {1}, CreateInputs, UpdateInputs,
           AmountBodies({JUndef, Num(1), Num(MaxAmount)}), BOOLEAN)

SpecCrud == Init /\ [][NextCrud]_vars

\* SpecFrame: NumClients clients rename, re-threshold and adjust product 1 at
\* the same time, while client 1 also creates, reads and deletes the products
\* after it; every store call succeeds
NextFrame ==
  \/ Requests(Clients, {1},
              FullBodies({JStr(<<"A">>)}, {JUndef}, {JUndef}, {JUndef}),
              FullBodies({JStr(<<"B">>)}, {JUndef}, {JUndef}, {JUndef})
                \cup FullBodies({JUndef}, {JUndef}, {JUndef}, {Num(1)}),
              AmountBodies({Num(1)}), {TRUE})
  \/ Requests({1}, Ids \ {1},
              FullBodies({JStr(<<"A">>)}, {JUndef}, {JUndef}, {JUndef}),
              {}, {}, {TRUE})

SpecFrame == Init /\ [][NextFrame]_vars

\* ------------------------------------------------------------------ router
\* a path segment: a word, or the 24-hex string of id (MalformedId for a word)
Word(w) == [w |-> w, id |-> MalformedId]
IdSeg(i) == [w |-> "", id |-> i]

\* a route of the router: method, path pattern, handler
RouteOf(method, path, handler) ==
  [method |-> method, path |-> path, handler |-> handler]

RoutesIdFirst ==
  <<RouteOf("POST", <<>>, "create"),
    RouteOf("GET", <<>>, "getAll"),
    RouteOf("GET", <<":id">>, "getById"),
    RouteOf("GET", <<"low-stock">>, "lowStock"),
    RouteOf("PUT", <<":id">>, "update"),
    RouteOf("DELETE", <<":id">>, "delete"),
    RouteOf("PATCH", <<":id", "increase">>, "increase"),
    RouteOf("PATCH", <<":id", "decrease">>, "decrease")>>

\* the routes in the order in which the router registers them
Routes ==
  <<RouteOf("GET", <<"low-stock">>, "lowStock"),
    RouteOf("POST", <<>>, "create"),
    RouteOf("GET", <<>>, "getAll"),
    RouteOf("GET", <<":id">>, "getById"),
    RouteOf("PUT", <<":id">>, "update"),
    RouteOf("DELETE", <<":id">>, "delete"),
    RouteOf("PATCH", <<":id", "increase">>, "increase"),
    RouteOf("PATCH", <<":id", "decrease">>, "decrease")>>

\* a pattern matches a path of the same length whose segments are the
\* pattern's words; :id matches any segment
Match(pattern, path) ==
  /\ Len(pattern) = Len(path)
  /\ \A k \in 1..Len(pattern) :
       pattern[k] = ":id" \/ pattern[k] = path[k].w

Matching(method, path) ==
  {k \in 1..Len(Routes) :
     Routes[k].method = method /\ Match(Routes[k].path, path)}

\* the router calls the handler of the first route that matches; no handler
\* calls next()
Dispatch(method, path) ==
  IF Matching(method, path) = {} THEN "none"
  ELSE Routes[CHOOSE k \in Matching(method, path) :
                \A j \in Matching(method, path) : k <= j].handler

\* req.params.id
ParamId(path) == path[1].id

\* no route matches: the framework answers 404, no handler runs
notFound(c) ==
  /\ Ready(c)
  /\ req' = [req EXCEPT ![c] =
        Answer("none", MalformedId, NoBody, 404, "", NoProduct, {})]
  /\ UNCHANGED <<store, nextId>>

\* a request of client c comes in through app.use('/api/products', router)
Route(c, method, path, body, ok) ==
  /\ server.http = "listening" /\ ~server.exited
  /\ ok => server.conn = "connected"
  /\ UNCHANGED server
  /\ reqLine' = [reqLine EXCEPT ![c] = [method |-> method, path |-> path]]
  /\ \E handler \in {Dispatch(method, path)} :
       \/ handler = "lowStock" /\ getLowStockProducts(c, ok)
       \/ handler = "create" /\ createProduct(c, body, ok)
       \/ handler = "getAll" /\ getAllProducts(c, ok)
       \/ handler = "getById" /\ getProductById(c, ParamId(path), ok)
       \/ handler = "update" /\ updateProduct(c, ParamId(path), body, ok)
       \/ handler = "delete" /\ deleteProduct(c, ParamId(path), ok)
       \/ handler = "increase" /\ increaseStock(c, ParamId(path), body, ok)
       \/ handler = "decrease" /\ decreaseStock(c, ParamId(path), body, ok)
       \/ handler = "none" /\ notFound(c)

\* SpecRoute: one client sends requests of every method to the paths below
\* /api/products, with the id of the first product; store calls may fail
Methods == {"GET", "POST", "PUT", "DELETE", "PATCH"}

Paths ==
  {<<>>, <<Word("low-stock")>>, <<Word("low-stock"), Word("increase")>>}
    \cup {<<IdSeg(1)>>}
    \cup {<<IdSeg(1), Word(w)>> : w \in {"increase", "decrease"}}

RouteBodies ==
  {NoBody, AmountBody(Num(1))}
    \cup FullBodies({JStr(<<"A">>)}, {JUndef}, {JUndef, Num(MaxStock)}, {JUndef})

NextRoute ==
  \E ok \in BOOLEAN :
    \/ \E method \in Methods, path \in Paths, body \in RouteBodies :
         Route(1, method, path, body, ok)
    \/ Resume(1)

SpecRoute == Init /\ [][NextRoute]_vars

\* ================================================================== claims
Adjustments == {"increase", "decrease"}

\* the request of client c has been answered with status 200 by handler op
Answered200(c, op) ==
  req[c].pc = "done" /\ req[c].op = op /\ req[c].status = 200

\* the change of stock_quantity that the answered adjustment of c asked for
Delta(c) ==
  IF req[c].op = "increase" THEN req[c].body.amount.n ELSE -req[c].body.amount.n

\* c and d are two adjustments of the same product, both answered 200, that
\* ran at the same time: both loaded the same stock, and one of them saved
\* while the other was between its findById and its save
Overlapped(c, d) ==
  /\ c # d
  /\ req[c].op \in Adjustments /\ Answered200(c, req[c].op)
  /\ req[d].op \in Adjustments /\ Answered200(d, req[d].op)
  /\ req[c].id = req[d].id
  /\ req[c].read = req[d].read
  /\ req[c].stale \/ req[d].stale

\* C1: every stored product has stock_quantity >= 0, whatever the sequence and
\* interleaving of create, update, increase, decrease and delete requests.
StockNeverNegative ==
  \A i \in DOMAIN store :
    store[i].stock_quantity.k = "number" /\ store[i].stock_quantity.n >= 0

\* C1 witness: two decreases of the same product ran at the same time, each
\* fits the stock alone, together they exceed it, and both were answered 200.
ConcurrentDecreasesDone ==
  \E c, d \in Clients :
    /\ Overlapped(c, d)
    /\ req[c].op = "decrease" /\ req[d].op = "decrease"
    /\ req[c].body.amount.n + req[d].body.amount.n > req[c].read.n
    /\ req[c].id \in DOMAIN store

\* C2: adjustments are atomic per product: after two adjustments of the same
\* product that ran at the same time and were both answered 200, the stock is
\* the stock they started from plus the increases minus the decreases.
NoLostUpdate ==
  \A c, d \in Clients :
    (Overlapped(c, d) /\ req[c].id \in DOMAIN store)
      => store[req[c].id].stock_quantity.n = req[c].read.n + Delta(c) + Delta(d)

\* C3: of two decreases a, b of a product with stock S that run at the same
\* time, with a <= S, b <= S and a + b > S, at most one is answered 200.
AtMostOneDecreaseWins ==
  \A c, d \in Clients :
    ~ /\ Overlapped(c, d)
      /\ req[c].op = "decrease" /\ req[d].op = "decrease"
      /\ req[c].body.amount.n <= req[c].read.n
      /\ req[d].body.amount.n <= req[c].read.n
      /\ req[c].body.amount.n + req[d].body.amount.n > req[c].read.n

\* a is a JSON number that is an integer greater than zero
PositiveInteger(a) == a.k = "number" /\ a.n > 0 /\ a.n % Scale = 0

\* the handler of c loaded an existing product with findById
Loaded(c) == req[c].read.k = "number"

\* C4: a decrease by a positive integer amount greater than the stock S of an
\* existing product is answered 400 'Insufficient stock' and the stored
\* stock_quantity is still S.
DecreaseBeyondStockRejected ==
  \A c \in Clients :
    ( /\ req[c].pc = "done" /\ req[c].op = "decrease"
      /\ PositiveInteger(req[c].body.amount)
      /\ Loaded(c)
      /\ req[c].body.amount.n > req[c].read.n )
    => /\ req[c].status = 400
       /\ req[c].error = "Insufficient stock"
       /\ req[c].id \in DOMAIN store
       /\ store[req[c].id].stock_quantity = req[c].read

\* C4 witness: a decrease by more than a stock greater than zero was answered.
DecreaseBeyondStockDone ==
  \E c \in Clients :
    /\ req[c].pc = "done" /\ req[c].op = "decrease"
    /\ Loaded(c)
    /\ req[c].read.n > 0
    /\ req[c].body.amount.n > req[c].read.n
    /\ req[c].error = "Insufficient stock"

\* C5: a decrease, run alone, by a positive integer amount a <= S of an
\* existing product with stock S is answered 200 with the product at stock
\* S - a, and S - a is stored (the store call itself not failing).
DecreaseWithinStockApplied ==
  \A c \in Clients :
    ( /\ req[c].pc = "done" /\ req[c].op = "decrease"
      /\ PositiveInteger(req[c].body.amount)
      /\ Loaded(c)
      /\ req[c].body.amount.n <= req[c].read.n
      /\ ~req[c].fault )
    => /\ req[c].status = 200
       /\ req[c].product.id = req[c].id
       /\ req[c].product.stock_quantity = JNum(req[c].read.n - req[c].body.amount.n)
       /\ req[c].id \in DOMAIN store
       /\ store[req[c].id] = req[c].product

\* C5 witness: a decrease by exactly the stock was answered 200, stock is 0.
ExactDepletionDone ==
  \E c \in Clients :
    /\ Answered200(c, "decrease")
    /\ req[c].read.n > 0
    /\ req[c].body.amount.n = req[c].read.n
    /\ store[req[c].id].stock_quantity = JNum(0)

\* C6: an increase, run alone, by a positive integer amount a of an existing
\* product with stock S is answered 200 with the full product at stock S + a,
\* and S + a is stored (the store call itself not failing).
IncreaseApplied ==
  \A c \in Clients :
    ( /\ req[c].pc = "done" /\ req[c].op = "increase"
      /\ PositiveInteger(req[c].body.amount)
      /\ Loaded(c)
      /\ ~req[c].fault )
    => /\ req[c].status = 200
       /\ req[c].product.id = req[c].id
       /\ req[c].product.stock_quantity = JNum(req[c].read.n + req[c].body.amount.n)
       /\ RequiredOk(req[c].product.name)
       /\ req[c].product.low_stock_threshold.k = "number"
       /\ req[c].id \in DOMAIN store
       /\ store[req[c].id] = req[c].product

\* C6 witness: an increase of a product with stock greater than zero was
\* answered 200.
IncreaseDone ==
  \E c \in Clients :
    /\ Answered200(c, "increase")
    /\ req[c].read.n > 0
    /\ store[req[c].id].stock_quantity.n > req[c].read.n

\* C7: an increase or decrease whose amount is absent, zero, negative or not
\* an integer is answered 400 with one of the two amount errors, for an
\* existing, an unused and a malformed id alike, without a lookup of the
\* product and without a change of the store.
BadAmountRejected ==
  [][\A c \in Clients :
       ( /\ Ready(c) /\ req'[c] # req[c]
         /\ req'[c].op \in Adjustments
         /\ ~PositiveInteger(req'[c].body.amount) )
       => /\ req'[c].pc = "done"
          /\ req'[c].status = 400
          /\ req'[c].error \in {"Amount must be a positive number",
                                "Amount must be an integer"}
          /\ ~Loaded(c)'
          /\ store' = store]_vars

\* C7 witness: a decrease of an existing product by half a unit was answered
\* 400.
FractionalAmountDone ==
  \E c \in Clients :
    /\ req[c].pc = "done" /\ req[c].op = "decrease"
    /\ req[c].id \in DOMAIN store
    /\ req[c].body.amount = JNum(1)
    /\ req[c].status = 400

\* C8: the low-stock query is answered 200 with exactly the stored products
\* whose stock_quantity is less than their low_stock_threshold; a product
\* with stock equal to its threshold is not in the answer.
LowStockExact ==
  \A c \in Clients :
    (req[c].pc = "done" /\ req[c].op = "lowStock" /\ ~req[c].fault)
    => /\ req[c].status = 200
       /\ req[c].list =
            {store[i] : i \in {j \in DOMAIN store :
               store[j].stock_quantity.n < store[j].low_stock_threshold.n}}

\* C8 witness: the query was answered with one product while another product
\* with stock equal to its threshold is stored.
LowStockDone ==
  \E c \in Clients :
    /\ Answered200(c, "lowStock")
    /\ Cardinality(req[c].list) = 1
    /\ \E i \in DOMAIN store :
         /\ store[i].stock_quantity = store[i].low_stock_threshold
         /\ store[i] \notin req[c].list

\* the save of an increase by c that finds the stock as c loaded it succeeds
\* and stores that stock plus the amount
IncreaseSucceeds(c) ==
  ( /\ req[c].pc = "save" /\ req'[c].pc = "done"
    /\ req[c].op = "increase"
    /\ req[c].id \in DOMAIN store
    /\ store[req[c].id].stock_quantity = req[c].read
    /\ ~req'[c].fault )
  => /\ req'[c].status = 200
     /\ store'[req[c].id].stock_quantity =
          JNum(req[c].read.n + req[c].body.amount.n)

\* the stock is what the answered increase of c left, and d takes a step of a
\* decrease of the same product by the same amount: its findById passes the
\* floor check, its save succeeds and stores what the increase had loaded
DecreaseUndoes(c, d) ==
  ( /\ c # d
    /\ Answered200(c, "increase")
    /\ req[c].id \in DOMAIN store
    /\ store[req[c].id].stock_quantity = req[c].product.stock_quantity
    /\ req'[d].op = "decrease"
    /\ req'[d].id = req[c].id
    /\ req'[d].body.amount = req[c].body.amount
    /\ ~req'[d].fault )
  => /\ (Ready(d) /\ req'[d] # req[d])
          => /\ req'[d].pc = "save"
             /\ req'[d].read = req[c].product.stock_quantity
     /\ ( /\ req[d].pc = "save" /\ req'[d].pc = "done"
          /\ req[d].read = req[c].product.stock_quantity )
          => /\ req'[d].status = 200
             /\ req'[d].product.stock_quantity = req[c].read
             /\ store'[req[c].id].stock_quantity = req[c].read

\* C9: an increase by a followed by a decrease by the same a, with no other
\* request on the product in between, both succeed and the stock is again
\* what it was before the increase.
RoundTripRestores ==
  [][\A c, d \in Clients : IncreaseSucceeds(c) /\ DecreaseUndoes(c, d)]_vars

\* C9 witness: an increase and then a decrease by the same amount were
\* answered 200 and the stock is what the increase had read.
RoundTripDone ==
  \E c, d \in Clients :
    /\ c # d
    /\ Answered200(c, "increase")
    /\ Answered200(d, "decrease")
    /\ req[d].id = req[c].id
    /\ req[d].body.amount = req[c].body.amount
    /\ req[d].read = req[c].product.stock_quantity
    /\ ~req[d].stale
    /\ store[req[c].id].stock_quantity = req[c].read

\* C10: a create request whose name is missing or empty is answered 400 with
\* error 'Product name is required' and no product is added to the store.
NamelessCreateRejected ==
  [][\A c \in Clients :
       ( /\ Ready(c) /\ req'[c] # req[c]
         /\ req'[c].op = "create"
         /\ \/ req'[c].body.name.k \in {"undefined", "null"}
            \/ req'[c].body.name = JStr(<<>>) )
       => /\ req'[c].pc = "done"
          /\ req'[c].status = 400
          /\ req'[c].error = "Product name is required"
          /\ store' = store
          /\ nextId' = nextId]_vars

\* C10 witness: a create with the empty string as name was answered 400 while
\* a product is stored.
EmptyNameCreateDone ==
  \E c \in Clients :
    /\ req[c].pc = "done" /\ req[c].op = "create"
    /\ req[c].body.name = JStr(<<>>)
    /\ req[c].status = 400
    /\ DOMAIN store # {}

\* v is a quantity a request may supply: absent, or an integer >= 0
ValidQuantity(v) ==
  v.k = "undefined" \/ (v.k = "number" /\ v.n >= 0 /\ v.n % Scale = 0)

\* the value of a quantity field after a create: the one supplied, or default
SuppliedOr(v, default) == IF v.k = "undefined" THEN Num(default) ELSE v

\* the create of c has been answered, its quantities were valid or omitted
\* and its store call did not fail
ValidCreateDone(c) ==
  /\ req[c].pc = "done" /\ req[c].op = "create"
  /\ ValidQuantity(req[c].body.stock_quantity)
  /\ ValidQuantity(req[c].body.low_stock_threshold)
  /\ ~req[c].fault

\* the answer of c is 201 with a stored product of the given name and
\* description, the supplied quantities, and the defaults 0 and 10
Created(c, name, description) ==
  /\ req[c].status = 201
  /\ req[c].product.id \in DOMAIN store
  /\ store[req[c].product.id] = req[c].product
  /\ req[c].product.name = name
  /\ req[c].product.description = description
  /\ req[c].product.stock_quantity = SuppliedOr(req[c].body.stock_quantity, 0)
  /\ req[c].product.low_stock_threshold =
       SuppliedOr(req[c].body.low_stock_threshold, 10)
  /\ req[c].product.stock_quantity.n >= 0
  /\ req[c].product.low_stock_threshold.n >= 0

\* C11 (as stated): every create with a non-empty name and valid or omitted
\* quantities is answered 201 with a product whose supplied fields equal the
\* payload and whose omitted quantities are 0 and 10.
CreateEchoesPayload ==
  \A c \in Clients :
    ( /\ ValidCreateDone(c)
      /\ req[c].body.name.k = "string" /\ req[c].body.name.s # <<>> )
    => Created(c, req[c].body.name, req[c].body.description)

\* C11 (amended): every create whose name is non-empty after trimming, with
\* valid or omitted quantities and a store call that succeeds, is answered 201
\* with a stored product whose name and description are the payload's, trimmed,
\* whose supplied quantities equal the payload, and whose omitted quantities
\* are 0 and 10; both quantities are >= 0.
CreateStoresTrimmedPayload ==
  \A c \in Clients :
    ( /\ ValidCreateDone(c)
      /\ req[c].body.name.k = "string" /\ Trim(req[c].body.name.s) # <<>> )
    => Created(c, JStr(Trim(req[c].body.name.s)),
               IF req[c].body.description.k = "string"
               THEN JStr(Trim(req[c].body.description.s))
               ELSE req[c].body.description)

\* C11 witness: a create that supplies a description and a stock and omits the
\* threshold was answered 201 with threshold 10.
CreateWithDefaultsDone ==
  \E c \in Clients :
    /\ req[c].pc = "done" /\ req[c].op = "create" /\ req[c].status = 201
    /\ req[c].body.description.k = "string"
    /\ req[c].body.stock_quantity = Num(MaxStock)
    /\ req[c].body.low_stock_threshold.k = "undefined"
    /\ req[c].product.low_stock_threshold = Num(10)

\* the handlers that take the product id from the path
ById == {"getById", "update", "delete", "increase", "decrease"}

\* client c is answered in this step
Answers(c) == req'[c] # req[c] /\ req'[c].pc = "done"

\* the body of the request is one that the handler op accepts
ValidBody(op, body) ==
  CASE op \in Adjustments -> PositiveInteger(body.amount)
    [] op = "update" ->
         /\ body.name.k = "undefined"
              \/ (body.name.k = "string" /\ Trim(body.name.s) # <<>>)
         /\ ValidQuantity(body.stock_quantity)
         /\ ValidQuantity(body.low_stock_threshold)
    [] OTHER -> TRUE

\* a well-formed id that matches no stored product is answered 404
UnknownIdIs404(c) ==
  ( /\ req'[c].id \in Ids /\ req'[c].id \notin DOMAIN store
    /\ ValidBody(req'[c].op, req'[c].body) /\ ~req'[c].fault )
  => req'[c].status = 404 /\ req'[c].error = "Product not found"

\* a malformed id is answered 400 'Invalid product ID'
MalformedIdIs400(c) ==
  ( /\ req'[c].id = MalformedId
    /\ ValidBody(req'[c].op, req'[c].body) )
  => req'[c].status = 400 /\ req'[c].error = "Invalid product ID"

\* 'Invalid product ID' is answered only when the id is malformed
InvalidIdOnlyWhenMalformed(c) ==
  req'[c].error = "Invalid product ID" => req'[c].id = MalformedId

\* C12: for get-by-id, update, delete and increase/decrease with a valid
\* amount, an unknown well-formed id is answered 404 'Product not found', a
\* malformed id 400 'Invalid product ID', and 'Invalid product ID' is answered
\* only when the id is malformed.
IdErrorsMatchId ==
  [][\A c \in Clients :
       (Answers(c) /\ req'[c].op \in ById)
       => /\ UnknownIdIs404(c)
          /\ MalformedIdIs400(c)
          /\ InvalidIdOnlyWhenMalformed(c)]_vars

\* the fields of a product that a PUT can set
Fields == {"name", "description", "stock_quantity", "low_stock_threshold"}

\* C13: an update answered 200 changes, of the product it names, only the
\* fields supplied in the body; a supplied quantity takes the value supplied;
\* every field not supplied, the id and every other product stay as they were,
\* and the answer is the product after the change.
UpdateChangesOnlySupplied ==
  [][\A c \in Clients :
       (Answers(c) /\ req'[c].op = "update" /\ req'[c].status = 200)
       => LET id == req'[c].id
              body == req'[c].body
          IN /\ id \in DOMAIN store
             /\ DOMAIN store' = DOMAIN store
             /\ \A f \in Fields :
                  body[f].k = "undefined" => store'[id][f] = store[id][f]
             /\ \A f \in {"stock_quantity", "low_stock_threshold"} :
                  body[f].k # "undefined" => store'[id][f] = body[f]
             /\ store'[id].id = id
             /\ req'[c].product = store'[id]
             /\ \A i \in DOMAIN store \ {id} : store'[i] = store[i]]_vars

\* C13 witness: an update of name and stock_quantity was answered 200 with the
\* description and the threshold that the product was created with.
PartialUpdateDone ==
  \E c \in Clients :
    /\ Answered200(c, "update")
    /\ req[c].body.name.k = "string"
    /\ req[c].body.stock_quantity = Num(1)
    /\ req[c].body.description.k = "undefined"
    /\ req[c].product.description = JStr(<<"d">>)
    /\ req[c].product.low_stock_threshold = Num(0)

\* product i was created and has been deleted (ids are handed out in order)
Deleted(i) == i < nextId /\ i \notin DOMAIN store

\* C14: a delete answered 200 answers the record as it was and removes it; a
\* deleted id is absent from the store in every later state, no later
\* get/update/delete/adjust of it is answered 200, and the save() of an
\* adjustment that loaded the product before the delete does not store it again.
DeleteIsTerminal ==
  [][/\ \A c \in Clients :
          (Answers(c) /\ req'[c].op = "delete" /\ req'[c].status = 200)
          => /\ req'[c].id \in DOMAIN store
             /\ req'[c].product = store[req'[c].id]
             /\ req'[c].id \notin DOMAIN store'
     /\ \A i \in Ids : Deleted(i) => i \notin DOMAIN store'
     /\ \A c \in Clients :
          (Answers(c) /\ req'[c].op \in ById /\ req'[c].id \in Ids
             /\ Deleted(req'[c].id))
          => req'[c].status \in {400, 404, 500}]_vars

\* C14 witness: an adjustment loaded the product, a delete of it was answered
\* 200, and then the save() of the adjustment was answered 500 with the
\* product still absent.
SaveAfterDeleteDone ==
  \E c, d \in Clients :
    /\ Answered200(d, "delete")
    /\ req[c].pc = "done" /\ req[c].op \in Adjustments
    /\ req[c].id = req[d].id
    /\ Loaded(c) /\ req[c].stale /\ ~req[c].fault
    /\ req[c].status = 500
    /\ req[c].id \notin DOMAIN store

\* C15: a request answered 400, 404 or 500 leaves the store as it was before
\* the request: the step that answers it changes no product and creates and
\* deletes none, and neither did the findById step of an adjustment.
ErrorLeavesStore ==
  [][\A c \in Clients :
       /\ (Answers(c) /\ req'[c].status \in {400, 404, 500})
          => store' = store /\ nextId' = nextId
       /\ (Ready(c) /\ req'[c].pc = "save") => store' = store]_vars

\* C15 witness: the save() of a decrease of a stored product was answered 500
\* and the stock is the one that the decrease had loaded.
FailedSaveDone ==
  \E c \in Clients :
    /\ req[c].pc = "done" /\ req[c].op = "decrease" /\ req[c].status = 500
    /\ Loaded(c)
    /\ req[c].id \in DOMAIN store
    /\ store[req[c].id].stock_quantity = req[c].read

\* the answer r is a success without an error, or a JSON error with status
\* 400, 404 or 500
WellFormedAnswer(r) ==
  \/ r.status \in {200, 201} /\ r.error = ""
  \/ r.status \in {400, 404, 500} /\ r.error # ""

\* every request is answered by its handler or awaits save() unanswered, and
\* a store call that fails is answered 500
HandlersAnswer ==
  \A c \in Clients :
    /\ req[c].pc \in {"idle", "save", "done"}
    /\ req[c].pc = "save" => req[c].status = 0
    /\ req[c].pc = "done" => WellFormedAnswer(req[c])
    /\ (req[c].pc = "done" /\ req[c].fault) => req[c].status = 500

\* C16: every request to a handler, whatever the store does, ends in one
\* answer sent by the handler: 200/201, or {error} with 400, 404 or 500; a
\* handler that awaits save() is answered when it resumes.
EveryRequestAnswered ==
  /\ []HandlersAnswer
  /\ \A c \in Clients : (req[c].pc = "save") ~> (req[c].pc = "done")

\* C16 witness: one request was answered 500 because its store call failed,
\* another because the document it saves is gone.
StoreFailuresAnswered ==
  \E c, d \in Clients :
    /\ req[c].pc = "done" /\ req[c].fault /\ req[c].status = 500
    /\ req[d].pc = "done" /\ req[d].op \in Adjustments
    /\ Loaded(d) /\ ~req[d].fault /\ req[d].status = 500

\* while the connection has not been established no request reaches the
\* store: the ones that need it are answered 500, the others 400 as usual
FailsPerRequest ==
  server.conn # "connected"
  => /\ DOMAIN store = {}
     /\ \A c \in Clients :
          req[c].pc = "done"
          => \/ req[c].status = 500 /\ req[c].fault
             \/ req[c].status = 400 /\ ~req[c].fault

\* C17: whether the connection attempt succeeds, fails or stays pending, with
\* or without a connection string, the process does not exit and the server
\* comes to listen, without waiting for the attempt to finish; a connection
\* that is not there makes store-backed requests fail one by one.
StartupNotGated ==
  /\ [](~server.exited)
  /\ <>(server.http = "listening")
  /\ []FailsPerRequest

\* C17 witness: without a connection string the attempt has failed, the server
\* listens, and a request that needs the store was answered 500.
ListeningWithoutStore ==
  \E c \in Clients :
    /\ ~server.uri /\ server.conn = "failed"
    /\ server.http = "listening"
    /\ req[c].pc = "done" /\ req[c].op = "getAll" /\ req[c].status = 500

\* every stored stock_quantity and low_stock_threshold is an integer, and the
\* threshold is >= 0
QuantitiesAreIntegers ==
  \A i \in DOMAIN store :
    /\ IsInteger(store[i].stock_quantity)
    /\ IsInteger(store[i].low_stock_threshold)
    /\ store[i].low_stock_threshold.n >= 0

\* C18: every stored product has low_stock_threshold >= 0 and integer
\* stock_quantity and low_stock_threshold, in every reachable state; a create
\* or update that supplies a stock_quantity or low_stock_threshold that is not
\* an integer >= 0 is answered 400 and leaves the store as it was.
QuantitiesStayValid ==
  /\ []QuantitiesAreIntegers
  /\ [][\A c \in Clients :
          ( /\ Answers(c) /\ req'[c].op \in {"create", "update"}
            /\ \/ ~ValidQuantity(req'[c].body.stock_quantity)
               \/ ~ValidQuantity(req'[c].body.low_stock_threshold) )
          => req'[c].status = 400 /\ store' = store]_vars

\* C18 witness: an update of a stored product with a threshold of one half
\* was answered 400.
FractionalThresholdDone ==
  \E c \in Clients :
    /\ req[c].pc = "done" /\ req[c].op = "update"
    /\ req[c].id \in DOMAIN store
    /\ req[c].body.low_stock_threshold = JNum(1)
    /\ req[c].status = 400

\* C19: every stored product has a name that is a non-empty string, in every
\* reachable state, whatever creates and updates were sent (names that are
\* absent, null, empty or blanks only among them).
NameNeverEmpty ==
  \A i \in DOMAIN store :
    store[i].name.k = "string" /\ store[i].name.s # <<>>

\* C19 witness: an update of a stored product with a name of blanks only was
\* answered 400.
BlankNameUpdateDone ==
  \E c \in Clients :
    /\ req[c].pc = "done" /\ req[c].op = "update"
    /\ req[c].id \in DOMAIN store
    /\ req[c].body.name = JStr(<<" ">>)
    /\ req[c].status = 400

\* C20: an increase or decrease answered 200 changes the stock_quantity of
\* its product and nothing else: id, name, description and low_stock_threshold
\* are what the store held right before the save, also when an update of them
\* committed after the adjustment had loaded the product, and every other
\* product is unchanged.
AdjustChangesOnlyStock ==
  [][\A c \in Clients :
       ( /\ req[c].pc = "save" /\ req'[c].pc = "done"
         /\ req'[c].status = 200 )
       => LET id == req[c].id
          IN /\ id \in DOMAIN store
             /\ DOMAIN store' = DOMAIN store
             /\ store'[id].id = id
             /\ \A f \in Fields \ {"stock_quantity"} :
                  store'[id][f] = store[id][f]
             /\ store'[id].stock_quantity = req'[c].product.stock_quantity
             /\ \A i \in DOMAIN store \ {id} : store'[i] = store[i]]_vars

\* C20 witness: an adjustment was answered 200 although an update had renamed
\* the product after the adjustment loaded it; the store holds the new name
\* and threshold, and a second product is stored.
AdjustAfterRenameDone ==
  \E c \in Clients :
    /\ req[c].pc = "done" /\ req[c].op \in Adjustments /\ req[c].status = 200
    /\ req[c].stale
    /\ req[c].id \in DOMAIN store
    /\ req[c].product.name = JStr(<<"A">>)
    /\ store[req[c].id].name = JStr(<<"B">>)
    /\ store[req[c].id].stock_quantity = req[c].product.stock_quantity
    /\ Cardinality(DOMAIN store) = 2

\* C21: a GET of /low-stock is always handled by the low-stock query and
\* never by get-by-id with 'low-stock' as the id: it is answered 200 with the
\* list of low-stock products (500 when the store call fails), never 400
\* 'Invalid product ID'.
LowStockRoutedFirst ==
  \A c \in Clients :
    ( /\ reqLine[c] = [method |-> "GET", path |-> <<Word("low-stock")>>]
      /\ req[c].pc = "done" )
    => /\ req[c].op = "lowStock"
       /\ req[c].error # "Invalid product ID"
       /\ IF req[c].fault THEN req[c].status = 500
          ELSE req[c].status = 200 /\ req[c].list = LowStock

\* C21 witness: a GET of /low-stock was answered 200 with a product, and a GET
\* of /<id> is what get-by-id answers.
LowStockRouteDone ==
  \E c \in Clients :
    /\ reqLine[c] = [method |-> "GET", path |-> <<Word("low-stock")>>]
    /\ Answered200(c, "lowStock")
    /\ req[c].list # {}

====
